---- MODULE Spec2Model ----
(***************************************************************************)
(* A model of the skivori-case front end: the sanitizeInput helper         *)
(* (utils/sanitizeInput), the Pagination component                         *)
(* (components/Pagination/Pagination.tsx), the games list page             *)
(* (pages/GamesList/GamesList.tsx) and the currency service                *)
(* (services/currencyService).                                             *)
(*                                                                         *)
(* JavaScript values are modelled as records of one fixed shape, so that   *)
(* any two of them can be compared:                                        *)
(*   t       the type tag ("undefined", "null", "number", "boolean",       *)
(*           "string", "array", "object"; "TypeError" for a thrown error,  *)
(*           "pending" for a call that has not run yet)                    *)
(*   n       the number, or 0/1 for false/true                             *)
(*   cs      the characters of a string                                    *)
(*   elems   the elements of an array                                      *)
(*   entries the own enumerable properties of an object, in property       *)
(*           order, each a record [k |-> key, v |-> value]                 *)
(***************************************************************************)
EXTENDS Integers, Sequences, FiniteSets, TLC

VARIABLES
    input,          \* sanitizeInput: the candidate value of the call
    defaults,       \* sanitizeInput: the default template of the call
    result,         \* sanitizeInput: what the call returned (or threw)
    newPage,        \* isValidPage: the page number under test
    total,          \* isValidPage: the total number of items
    pageLimit,      \* isValidPage: the items per page (parameter `limit`)
    valid,          \* isValidPage: the value returned ("pending" before)
    currentPage,    \* Pagination props: currentPage
    totalItems,     \* Pagination props: totalItems
    itemsPerPage,   \* Pagination props: itemsPerPage
    buttons,        \* Pagination: the rendered <li> buttons, in order
    clicked,        \* the target page of the last button click (NoPage: none)
    invoked,        \* the arguments onPageChange received during that click
    raised,         \* whether that click's handler raised an error
    search,         \* GameList state: the search text (its characters)
    gamesPage,      \* GameList state `page`: the current page
    gamesTotal,     \* GameList state `total`: the total number of items
    filteredGames,  \* GameList state: the games shown
    notFound,       \* GameList state: no game matches the search
    loading,        \* GameList state: the loading flag
    error,          \* GameList state: the error shown ("" for none)
    timers,         \* the pending debounce timeouts of the effect
    inflight,       \* the games requests sent and not yet answered
    issued,         \* the number of games requests sent so far
    applied,        \* <<request, issued>> when a response was last applied
    currencyCache,  \* currencyService: the cache, <<>> or <<entry>> per currency
    now,            \* Date.now(), in milliseconds
    calls,          \* the convertCurrency calls that await fetchExchangeRates
    callCount,      \* the number of convertCurrency calls made so far
    done,           \* <<>> or <<the outcome of the call that ended last>>
    slotBalance,    \* SlotMachine state `balance`
    reward,         \* SlotMachine state: the reward of the last spin
    slotResult,     \* SlotMachine state `result`: the symbols of the last spin
    spinHistory,    \* SlotMachine state: the entries of the history table
    isSpinning,     \* SlotMachine state: the spinning flag
    slotError,      \* SlotMachine state `error` ("" for none)
    spinCount,      \* SlotMachine state: the number of spins
    spinRequests,   \* the spin requests sent and not yet handled
    resetRequests,  \* the number of reset requests sent and not yet handled
    spinsSent,      \* the number of spin requests sent so far
    resetsSent,     \* the number of reset requests sent so far
    lastEvent       \* the handler or callback that ran last

sanitizeVars == <<input, defaults, result>>
validVars == <<newPage, total, pageLimit, valid>>
paginationVars ==
    <<currentPage, totalItems, itemsPerPage, buttons, clicked, invoked, raised>>
gamesVars ==
    <<search, gamesPage, gamesTotal, filteredGames, notFound, loading, error,
      timers, inflight, issued, applied>>
currencyVars == <<currencyCache, now, calls, callCount, done>>
slotVars ==
    <<slotBalance, reward, slotResult, spinHistory, isSpinning, slotError,
      spinCount, spinRequests, resetRequests, spinsSent, resetsSent, lastEvent>>
vars == <<input, defaults, result, newPage, total, pageLimit, valid,
          currentPage, totalItems, itemsPerPage, buttons, clicked, invoked, raised,
          search, gamesPage, gamesTotal, filteredGames, notFound, loading, error,
          timers, inflight, issued, applied,
          currencyCache, now, calls, callCount, done,
          slotBalance, reward, slotResult, spinHistory, isSpinning, slotError,
          spinCount, spinRequests, resetRequests, spinsSent, resetsSent,
          lastEvent>>

----------------------------------------------------------------------------
(* Bounds of the model. *)

MaxNum == 1
MaxStrLen == 1
MaxArrLen == 2
MaxPage == 4
MaxTotal == 12
MaxItemsPerPage == 10
MaxFetches == 3
MaxCalls == 3
MaxClockTicks == 3
MaxSpins == 3
MaxResets == 2

----------------------------------------------------------------------------
(* JavaScript values. *)

Val(t, n, cs, elems, entries) ==
    [t |-> t, n |-> n, cs |-> cs, elems |-> elems, entries |-> entries]

Undefined == Val("undefined", 0, <<>>, <<>>, <<>>)
Null == Val("null", 0, <<>>, <<>>, <<>>)
Num(n) == Val("number", n, <<>>, <<>>, <<>>)
Bool(b) == Val("boolean", IF b THEN 1 ELSE 0, <<>>, <<>>, <<>>)
Str(cs) == Val("string", 0, cs, <<>>, <<>>)
Arr(elems) == Val("array", 0, <<>>, elems, <<>>)
Obj(entries) == Val("object", 0, <<>>, <<>>, entries)
Entry(k, v) == [k |-> k, v |-> v]

\* The error Object.entries raises on undefined or null.
TypeError == Val("TypeError", 0, <<>>, <<>>, <<>>)
\* The call has not run yet.
Pending == Val("pending", 0, <<>>, <<>>, <<>>)

\* Array.isArray(v)
IsArray(v) == v.t = "array"
\* typeof v === "object" && v !== null, for a v that is no array
IsObject(v) == v.t = "object"
\* v is undefined or null: the left operands `??` replaces
IsNullish(v) == v.t \in {"undefined", "null"}
\* a defined, non-null primitive
IsPrimitive(v) == v.t \in {"number", "boolean", "string"}

\* The property keys "0", "1", ... of array elements and string characters.
IndexKeys == <<"0", "1", "2", "3", "4", "5", "6", "7">>
IndexKey(i) == IndexKeys[i]

\* The keys of an object value, in property order.
KeysOf(o) == [i \in 1..Len(o.entries) |-> o.entries[i].k]
KeySet(o) == {o.entries[i].k : i \in 1..Len(o.entries)}

\* o[key] for an object o: the property's value, undefined when o has none.
GetProp(o, key) ==
    IF \E i \in 1..Len(o.entries) : o.entries[i].k = key
    THEN LET i == CHOOSE j \in 1..Len(o.entries) : o.entries[j].k = key
         IN o.entries[i].v
    ELSE Undefined

----------------------------------------------------------------------------
(* utils/sanitizeInput *)

\* Object.entries(defaults) for a defaults that is neither undefined nor
\* null (for those it throws, see sanitizeInput): a number or a boolean has
\* no own enumerable property, a string has one per character and an array
\* one per element, keyed by the index; an object has its own properties.
ObjectEntries(d) ==
    CASE d.t = "string" -> [i \in 1..Len(d.cs) |-> Entry(IndexKey(i), Str(<<d.cs[i]>>))]
      [] d.t = "array" -> [i \in 1..Len(d.elems) |-> Entry(IndexKey(i), d.elems[i])]
      [] d.t = "object" -> d.entries
      [] OTHER -> <<>>

\* A variant that forgets the length test: `input` whatever its length.
ArrayAsIs(in, d) == in

\* input.length ? input : defaults
NonEmptyOrDefaults(in, d) == IF Len(in.elems) # 0 THEN in ELSE d

\* Falsy values: what `||` replaces.
IsFalsy(v) == IsNullish(v) \/ v \in {Num(0), Bool(FALSE), Str(<<>>)}

\* A variant with `input || defaults`.
CoalesceOr(in, d) == IF IsFalsy(in) THEN d ELSE in

\* A variant with `input !== null ? input : defaults`.
CoalesceNullOnly(in, d) == IF in.t = "null" THEN d ELSE in

\* input ?? defaults
Coalesce(in, d) == IF IsNullish(in) THEN d ELSE in

RECURSIVE sanitizeInput(_, _)

\* A variant whose reduce starts from a copy of input, { ...input }, and not
\* from {}: the properties of input stay, in their order, and the missing
\* keys of defaults follow.
SanitizeEntriesOntoInput(in, d) ==
    IF IsNullish(d) THEN TypeError
    ELSE LET es == ObjectEntries(d)
             has(k) == \E i \in 1..Len(es) : es[i].k = k
             dv(k) == (CHOOSE i \in 1..Len(es) : es[i].k = k)
             ks == KeysOf(in) \o SelectSeq([i \in 1..Len(es) |-> es[i].k],
                                           LAMBDA k : k \notin KeySet(in))
             acc == [i \in 1..Len(ks) |->
                        Entry(ks[i], IF has(ks[i])
                                     THEN sanitizeInput(GetProp(in, ks[i]), es[dv(ks[i])].v)
                                     ELSE GetProp(in, ks[i]))]
         IN IF \E i \in 1..Len(ks) : acc[i].v = TypeError
            THEN TypeError
            ELSE Obj(acc)

\* Object.entries(defaults).reduce(...): one property per entry of defaults,
\* in the order of the entries, its value the sanitized input[key]. A
\* TypeError raised by Object.entries, here or in a nested call, ends the
\* whole call.
SanitizeEntries(in, d) ==
    IF IsNullish(d) THEN TypeError
    ELSE LET es == ObjectEntries(d)
             acc == [i \in 1..Len(es) |->
                        Entry(es[i].k, sanitizeInput(GetProp(in, es[i].k), es[i].v))]
         IN IF \E i \in 1..Len(es) : acc[i].v = TypeError
            THEN TypeError
            ELSE Obj(acc)

\* A variant without the Array.isArray test: an array is an object too.
sanitizeInputNoArrayTest(in, d) ==
    IF IsArray(in) \/ IsObject(in) THEN SanitizeEntries(in, d)
    ELSE Coalesce(in, d)

sanitizeInput(in, d) ==
    IF IsArray(in) THEN NonEmptyOrDefaults(in, d)
    ELSE IF IsObject(in) THEN SanitizeEntries(in, d)
    ELSE Coalesce(in, d)

----------------------------------------------------------------------------
(* The values the calls are made with. *)

Keys == {"a", "b"}
Chars == {"x"}

SeqsUpTo(S, n) == UNION {[1..k -> S] : k \in 0..n}

Nums == {Num(n) : n \in 0..MaxNum}
Bools == {Bool(FALSE), Bool(TRUE)}
Strs == {Str(cs) : cs \in SeqsUpTo(Chars, MaxStrLen)}
Leaves == {Undefined, Null} \cup Nums \cup Bools \cup Strs
Arrays == {Arr(es) : es \in SeqsUpTo({Num(0), Null}, MaxArrLen)}

\* Objects of at most one property, the values of nested properties.
InnerObjects ==
    {Obj(<<>>), Obj(<<Entry("a", Num(0))>>), Obj(<<Entry("a", Undefined)>>),
     Obj(<<Entry("a", Null)>>), Obj(<<Entry("b", Num(MaxNum))>>)}

\* What a property of an object holds.
Slots ==
    {Undefined, Null, Num(0), Num(MaxNum), Bool(FALSE), Str(<<>>), Str(<<"x">>),
     Arr(<<>>), Arr(<<Num(0)>>)} \cup InnerObjects

\* Objects of at most two properties, in both property orders.
Objects ==
    {Obj(<<>>)}
    \cup {Obj(<<Entry(k, v)>>) : k \in Keys, v \in Slots}
    \cup {Obj(<<Entry(k[1], v1), Entry(k[2], v2)>>) :
            k \in {<<"a", "b">>, <<"b", "a">>}, v1 \in Slots, v2 \in Slots}

Values == Leaves \cup Arrays \cup Objects

InitSanitize ==
    /\ input \in Values
    /\ defaults \in Values
    /\ result = Pending

\* One call sanitizeInput(input, defaults).
Sanitize ==
    /\ result = Pending
    /\ result' = sanitizeInput(input, defaults)
    /\ UNCHANGED <<input, defaults>>

Called == result # Pending
Threw == result = TypeError
Returned == Called /\ ~Threw

----------------------------------------------------------------------------
(* components/Pagination/Pagination.tsx *)

\* Items per page (fixed for now)
limit == 10

\* Math.ceil(a / b) for an integer a and a positive integer b.
MathCeilDiv(a, b) == -((-a) \div b)

\* The number a value is converted to when it is divided: false is 0 and
\* true is 1.
ToNumber(v) == v.n

\* A variant with Math.floor in the place of Math.ceil.
isValidPageFloor(np, tot, lim) == np > 0 /\ np <= tot \div lim

isValidPage(np, tot, lim) == np > 0 /\ np <= MathCeilDiv(tot, lim)

\* The <li> of one button. `total` and `onPageChange` are what the button's
\* onClick closure passes on to handlePageChange.
renderPaginationButton(targetPage, label, tot, onPageChange, isDisabled, isActive) ==
    [targetPage |-> targetPage, label |-> label, total |-> tot,
     onPageChange |-> onPageChange, disabled |-> isDisabled, active |-> isActive]

\* The callback the caller passed to the component.
Callback == "onPageChange"
\* A boolean in the place of the callback.
BoolArg(b) == IF b THEN "true" ELSE "false"

\* A variant that numbers the pages from 0.
renderPageNumberButtonsFromZero(totalPages, page) ==
    [index \in 1..totalPages |->
        renderPaginationButton(index - 1, ToString(index - 1), Bool(FALSE),
                               BoolArg(page = index - 1), FALSE, FALSE)]

\* renderButton(pageNum, pageNum, false, currentPage === pageNum) with
\* renderButton = renderPaginationButton, whose parameters are (targetPage,
\* label, total, onPageChange, isDisabled = false, isActive = false): the
\* third and fourth arguments land in total and onPageChange, and isDisabled
\* and isActive take their defaults.
renderPageNumberButtons(totalPages, page) ==
    [index \in 1..totalPages |->
        renderPaginationButton(index, ToString(index), Bool(FALSE),
                               BoolArg(page = index), FALSE, FALSE)]

\* A variant for pages numbered from 0: Previous is disabled on page 0.
renderPaginationControlsPrevAtZero(page, tot, lim) ==
    LET totalPages == MathCeilDiv(tot, lim)
    IN <<renderPaginationButton(page - 1, "Previous", Num(tot), Callback,
                                page = 0, FALSE)>>
       \o renderPageNumberButtons(totalPages, page)
       \o <<renderPaginationButton(page + 1, "Next", Num(tot), Callback,
                                   page = totalPages, FALSE)>>

\* A variant that disables Next on every page from the last one on.
renderPaginationControlsNextFromLast(page, tot, lim) ==
    LET totalPages == MathCeilDiv(tot, lim)
    IN <<renderPaginationButton(page - 1, "Previous", Num(tot), Callback,
                                page = 1, FALSE)>>
       \o renderPageNumberButtons(totalPages, page)
       \o <<renderPaginationButton(page + 1, "Next", Num(tot), Callback,
                                   page >= totalPages, FALSE)>>

renderPaginationControls(page, tot, lim) ==
    LET totalPages == MathCeilDiv(tot, lim)
    IN <<renderPaginationButton(page - 1, "Previous", Num(tot), Callback,
                                page = 1, FALSE)>>
       \o renderPageNumberButtons(totalPages, page)
       \o <<renderPaginationButton(page + 1, "Next", Num(tot), Callback,
                                   page = totalPages, FALSE)>>

\* handlePageChange(newPage, total, onPageChange): the arguments onPageChange
\* is invoked with, in order.
handlePageChange(np, tot, onPageChange) ==
    IF isValidPage(np, ToNumber(tot), limit) /\ onPageChange = Callback
    THEN <<np>>
    ELSE <<>>

\* Calling something that is not a function raises a TypeError.
handlePageChangeRaises(np, tot, onPageChange) ==
    isValidPage(np, ToNumber(tot), limit) /\ onPageChange # Callback

InitPagination ==
    /\ currentPage \in 1..MaxPage
    /\ totalItems \in 0..MaxTotal
    /\ itemsPerPage \in 1..MaxItemsPerPage
    /\ buttons = renderPaginationControls(currentPage, totalItems, itemsPerPage)
    /\ clicked = <<>>
    /\ invoked = <<>>
    /\ raised = FALSE

\* A click on the i-th button: its onClick runs handlePageChange. A disabled
\* button receives no click.
Click(i) ==
    /\ ~buttons[i].disabled
    /\ clicked' = <<i, buttons[i].targetPage>>
    /\ invoked' = handlePageChange(buttons[i].targetPage, buttons[i].total,
                                   buttons[i].onPageChange)
    /\ raised' = handlePageChangeRaises(buttons[i].targetPage, buttons[i].total,
                                        buttons[i].onPageChange)
    /\ UNCHANGED <<currentPage, totalItems, itemsPerPage, buttons>>

ClickButton == \E i \in 1..Len(buttons) : Click(i)

InitValid ==
    /\ newPage \in (-1)..(MaxPage + 1)
    /\ total \in 0..MaxTotal
    /\ pageLimit \in 1..MaxItemsPerPage
    /\ valid = "pending"

\* One call isValidPage(newPage, total, pageLimit).
CheckPage ==
    /\ valid = "pending"
    /\ valid' = IF isValidPage(newPage, total, pageLimit) THEN "true" ELSE "false"
    /\ UNCHANGED <<newPage, total, pageLimit>>

----------------------------------------------------------------------------
(* pages/GamesList/GamesList.tsx *)

\* const itemsPerPage = 10
gamesItemsPerPage == 10

\* The delay of the debounce timeout, in milliseconds.
DebounceDelay == 500

\* The time that passes in one step of the clock.
TickStep == DebounceDelay \div 2

\* The search texts the user enters, as sequences of characters.
Searches == {<<>>, <<" ">>, <<"a">>, <<"a", " ">>, <<" ", "a">>}

\* String.prototype.trim
RECURSIVE TrimStart(_)
TrimStart(cs) == IF cs # <<>> /\ Head(cs) = " " THEN TrimStart(Tail(cs)) ELSE cs
RECURSIVE TrimEnd(_)
TrimEnd(cs) ==
    IF cs # <<>> /\ cs[Len(cs)] = " " THEN TrimEnd(SubSeq(cs, 1, Len(cs) - 1)) ELSE cs
Trim(cs) == TrimEnd(TrimStart(cs))

\* What the server answers: the games of the page and the total.
GamesPages == {<<>>, <<"game">>}
Totals == {0, MaxTotal}

\* The message of the error fetchGamesFromRemote throws.
FetchError == "Unable to fetch games. Please try again later."

\* The timeout the effect sets: setTimeout(() => fetchGames(search.trim(),
\* page), 500), with the search and page of the render that ran the effect.
NewTimer(s, p) == [search |-> s, page |-> p, elapsed |-> 0]

\* The effect on [search, page]: its cleanup clears the timeout the last run
\* set, and the run sets a new one.
RunEffect(ts, s, p) == <<NewTimer(s, p)>>

\* useState of the first render, and the effect run after it.
InitGames ==
    /\ search = <<>>
    /\ gamesPage = 1
    /\ gamesTotal = 0
    /\ filteredGames = <<>>
    /\ notFound = FALSE
    /\ loading = FALSE
    /\ error = ""
    /\ timers = RunEffect(<<>>, <<>>, 1)
    /\ inflight = {}
    /\ issued = 0
    /\ applied = <<>>

\* A variant that resets the page to 0.
handleSearchChangeZero(value) == [search |-> value, page |-> 0]

\* handleSearchChange: setSearch(e.target.value); setPage(1)
handleSearchChange(value) == [search |-> value, page |-> 1]

\* The user edits the search text. The render that follows has a new search,
\* so the effect runs again.
SearchChange(value) ==
    /\ value # search
    /\ LET st == handleSearchChange(value)
       IN /\ search' = st.search
          /\ gamesPage' = st.page
          /\ timers' = RunEffect(timers, st.search, st.page)
    /\ UNCHANGED <<gamesTotal, filteredGames, notFound, loading, error,
                   inflight, issued, applied>>

\* displayContent: !loading && !notFound
displayContent == ~loading /\ ~notFound

\* A click on the i-th button of the Pagination the page renders with
\* currentPage = page, totalItems = total, itemsPerPage and onPageChange =
\* handlePageChange, which is setPage. Setting the page to a new value
\* renders again and runs the effect.
PageClick(i) ==
    LET bs == renderPaginationControls(gamesPage, gamesTotal, gamesItemsPerPage)
    IN /\ displayContent
       /\ i \in 1..Len(bs)
       /\ ~bs[i].disabled
       /\ ~handlePageChangeRaises(bs[i].targetPage, bs[i].total, bs[i].onPageChange)
       /\ LET args == handlePageChange(bs[i].targetPage, bs[i].total,
                                       bs[i].onPageChange)
              np == IF args = <<>> THEN gamesPage ELSE args[1]
          IN /\ gamesPage' = np
             /\ timers' = IF np # gamesPage THEN RunEffect(timers, search, np) ELSE timers
       /\ UNCHANGED <<search, gamesTotal, filteredGames, notFound, loading, error,
                      inflight, issued, applied>>

\* Time passes: every pending timeout is TickStep older.
Tick ==
    /\ \E i \in 1..Len(timers) : timers[i].elapsed < DebounceDelay
    /\ timers' = [i \in 1..Len(timers) |->
                    [timers[i] EXCEPT !.elapsed =
                        IF @ + TickStep > DebounceDelay THEN DebounceDelay
                        ELSE @ + TickStep]]
    /\ UNCHANGED <<search, gamesPage, gamesTotal, filteredGames, notFound, loading,
                   error, inflight, issued, applied>>

\* A variant of the timeout with no delay.
TimerDueAtOnce(t) == TRUE

\* A timeout runs its callback once its delay has passed.
TimerDue(t) == t.elapsed >= DebounceDelay

\* sanitizeInput({ query, page }, { query: '', page: 1 })
sanitizedInputs(query, p) ==
    sanitizeInput(Obj(<<Entry("query", Str(query)), Entry("page", Num(p))>>),
                  Obj(<<Entry("query", Str(<<>>)), Entry("page", Num(1))>>))

\* The i-th timeout runs: fetchGames(search.trim(), page) with the search
\* and page of its closure. fetchGames sets loading, error and notFound,
\* sends the request without awaiting its promise, and its finally block
\* sets loading to false before it returns.
TimerFire(i) ==
    /\ i \in 1..Len(timers)
    /\ TimerDue(timers[i])
    /\ issued < MaxFetches
    /\ LET query == Trim(timers[i].search)
           sane == sanitizedInputs(query, timers[i].page)
           loadingInTry == TRUE
           loadingInFinally == FALSE
       IN /\ inflight' = inflight \cup
                 {[id |-> issued + 1,
                   query |-> GetProp(sane, "query").cs,
                   page |-> GetProp(sane, "page").n,
                   notFoundQuery |-> query]}
          /\ loading' = loadingInFinally
    /\ issued' = issued + 1
    /\ error' = ""
    /\ notFound' = FALSE
    /\ timers' = [j \in 1..(Len(timers) - 1) |->
                    IF j < i THEN timers[j] ELSE timers[j + 1]]
    /\ UNCHANGED <<search, gamesPage, gamesTotal, filteredGames, applied>>

\* An array of games as a value, and back.
GamesArr(paginatedGames) ==
    Arr([i \in 1..Len(paginatedGames) |-> Str(<<"g">>)])
GamesOf(v) == [i \in 1..Len(v.elems) |-> "game"]

\* sanitizeInput({ query, paginatedGames }, { query: "", paginatedGames: [] })
sanitizedNotFound(query, paginatedGames) ==
    sanitizeInput(Obj(<<Entry("query", Str(query)),
                        Entry("paginatedGames", GamesArr(paginatedGames))>>),
                  Obj(<<Entry("query", Str(<<>>)),
                        Entry("paginatedGames", Arr(<<>>))>>))

\* shouldSetNotFound: sanitizedQuery && sanitizedGames.length === 0, taken
\* from the sanitized arguments.
shouldSetNotFound(query, paginatedGames) ==
    LET sane == sanitizedNotFound(query, paginatedGames)
    IN /\ GetProp(sane, "query").cs # <<>>
       /\ Len(GetProp(sane, "paginatedGames").elems) = 0

\* handleNotFound: the value it passes to setNotFound, which is
\* Boolean(shouldSetNotFound(sanitizedQuery, sanitizedGames)).
handleNotFound(query, paginatedGames) ==
    LET sane == sanitizedNotFound(query, paginatedGames)
    IN shouldSetNotFound(GetProp(sane, "query").cs,
                         GamesOf(GetProp(sane, "paginatedGames")))

\* The request r is answered: the .then callback of fetchGames sets the
\* games, the total and notFound.
GamesResponse(r, paginatedGames, tot) ==
    /\ r \in inflight
    /\ filteredGames' = paginatedGames
    /\ gamesTotal' = tot
    /\ notFound' = handleNotFound(r.notFoundQuery, paginatedGames)
    /\ inflight' = inflight \ {r}
    /\ applied' = <<r.id, issued>>
    /\ UNCHANGED <<search, gamesPage, loading, error, timers, issued>>

\* The request r fails: the .catch callback of fetchGames sets the error.
GamesFailure(r) ==
    /\ r \in inflight
    /\ error' = FetchError
    /\ inflight' = inflight \ {r}
    /\ UNCHANGED <<search, gamesPage, gamesTotal, filteredGames, notFound, loading,
                   timers, issued, applied>>

EditSearch == \E value \in Searches : SearchChange(value)
ClickPage == \E i \in 1..(MaxTotal + 2) : PageClick(i)
FireTimer == \E i \in 1..Len(timers) : TimerFire(i)
AnswerGames ==
    \E r \in inflight, g \in GamesPages, t \in Totals : GamesResponse(r, g, t)
FailGames == \E r \in inflight : GamesFailure(r)

IdleGames ==
    /\ search = <<>>
    /\ gamesPage = 1
    /\ gamesTotal = 0
    /\ filteredGames = <<>>
    /\ notFound = FALSE
    /\ loading = FALSE
    /\ error = ""
    /\ timers = <<>>
    /\ inflight = {}
    /\ issued = 0
    /\ applied = <<>>

----------------------------------------------------------------------------
(* services/currencyService *)

\* const CACHE_TTL = 1 * 60 * 1000 (one minute, in milliseconds)
CACHE_TTL == 1 * 60 * 1000

\* const balance = 100 of the games list, the amount it converts.
balance == 100

\* The time that passes in one step of the clock.
ClockStep == CACHE_TTL \div 2

\* The currencies of the selector.
CurrencyCodes == {"EUR", "GBP"}

\* The rates the API answers for a currency, in hundredths; 0 stands for
\* every falsy rate, the one of a missing currency included.
RateValues == {0, 85, 112}

\* The ways the request of fetchExchangeRates fails: a timeout, the statuses
\* 401 and 429, another network error, and an answer without rates.
FetchFailures == {"ECONNABORTED", "401", "429", "network", "norates"}

\* The message fetchExchangeRates throws for a failure.
fetchExchangeRatesError(kind) ==
    CASE kind = "ECONNABORTED" ->
            "The request took too long - please try again later."
      [] kind = "401" ->
            "Unauthorized access to the currency API. Please check your API key."
      [] kind = "429" ->
            "Too many requests to the currency API - please try again later."
      [] OTHER -> "Failed to fetch exchange rates. Please try again later."

\* A variant that lets an entry live for ttl milliseconds inclusive.
isCacheValidInclusive(timestamp, ttl) == now - timestamp <= ttl

\* isCacheValid: Date.now() - timestamp < ttl
isCacheValid(timestamp, ttl) == now - timestamp < ttl

\* (amount * rate).toFixed(2) followed by the currency code: the digits
\* before and after the decimal point, for a rate in hundredths.
Converted(amount, rate, currency) ==
    [whole |-> (amount * rate) \div 100, cents |-> (amount * rate) % 100,
     currency |-> currency, message |-> ""]

\* An error thrown with a message, in the shape of a returned value.
Thrown(message) == [whole |-> 0, cents |-> 0, currency |-> "", message |-> message]

\* `Currency ${currency} not found in the exchange rates.`
NotFoundError(currency) ==
    IF currency = "EUR" THEN "Currency EUR not found in the exchange rates."
    ELSE "Currency GBP not found in the exchange rates."

\* The outcome of a call of convertCurrency: what it returned or threw, and
\* for what call it did.
Outcome(id, currency, amount, cachedRate, calledAt, fetched, status, value) ==
    [id |-> id, currency |-> currency, balance |-> amount,
     cachedRate |-> cachedRate, calledAt |-> calledAt, fetched |-> fetched,
     status |-> status, value |-> value]

\* The module is loaded: the cache is empty.
InitCurrency ==
    /\ currencyCache = [c \in CurrencyCodes |-> <<>>]
    /\ now = 0
    /\ calls = {}
    /\ callCount = 0
    /\ done = <<>>

\* convertCurrency(currency, amount) up to its await: with a valid cached
\* rate it returns the conversion, else it calls fetchExchangeRates.
ConvertCurrency(currency, amount) ==
    /\ callCount < MaxCalls
    /\ callCount' = callCount + 1
    /\ LET cachedRate == currencyCache[currency]
       IN IF cachedRate # <<>> /\ isCacheValid(cachedRate[1].timestamp, CACHE_TTL)
          THEN /\ done' = <<Outcome(callCount + 1, currency, amount, cachedRate,
                                    now, FALSE, "returned",
                                    Converted(amount, cachedRate[1].rate, currency))>>
               /\ calls' = calls
          ELSE /\ calls' = calls \cup
                      {[id |-> callCount + 1, currency |-> currency,
                        balance |-> amount, cachedRate |-> cachedRate,
                        calledAt |-> now]}
               /\ done' = done
    /\ UNCHANGED <<currencyCache, now>>

\* fetchExchangeRates answers the call c with rates: convertCurrency throws
\* when the rate of its currency is falsy, else it caches the rate with the
\* time of now and returns the conversion.
RatesResponse(c, rates) ==
    /\ c \in calls
    /\ calls' = calls \ {c}
    /\ LET rate == rates[c.currency]
       IN IF rate = 0
          THEN /\ done' = <<Outcome(c.id, c.currency, c.balance, c.cachedRate,
                                    c.calledAt, TRUE, "threw",
                                    Thrown(NotFoundError(c.currency)))>>
               /\ currencyCache' = currencyCache
          ELSE /\ currencyCache' =
                      [currencyCache EXCEPT
                          ![c.currency] = <<[rate |-> rate, timestamp |-> now]>>]
               /\ done' = <<Outcome(c.id, c.currency, c.balance, c.cachedRate,
                                    c.calledAt, TRUE, "returned",
                                    Converted(c.balance, rate, c.currency))>>
    /\ UNCHANGED <<now, callCount>>

\* A variant that drops the cached entry of the currency when the fetch
\* fails.
RatesFailureDropsEntry(c, kind) ==
    /\ c \in calls
    /\ calls' = calls \ {c}
    /\ done' = <<Outcome(c.id, c.currency, c.balance, c.cachedRate, c.calledAt,
                         TRUE, "threw", Thrown(fetchExchangeRatesError(kind)))>>
    /\ currencyCache' = [currencyCache EXCEPT ![c.currency] = <<>>]
    /\ UNCHANGED <<now, callCount>>

\* fetchExchangeRates throws for the call c, and convertCurrency throws the
\* same error.
RatesFailure(c, kind) ==
    /\ c \in calls
    /\ calls' = calls \ {c}
    /\ done' = <<Outcome(c.id, c.currency, c.balance, c.cachedRate, c.calledAt,
                         TRUE, "threw", Thrown(fetchExchangeRatesError(kind)))>>
    /\ UNCHANGED <<currencyCache, now, callCount>>

\* Time passes.
ClockTick ==
    /\ now < MaxClockTicks * ClockStep
    /\ now' = now + ClockStep
    /\ UNCHANGED <<currencyCache, calls, callCount, done>>

Convert == \E c \in CurrencyCodes : ConvertCurrency(c, balance)
AnswerRates ==
    \E c \in calls, rates \in [CurrencyCodes -> RateValues] : RatesResponse(c, rates)
FailRates == \E c \in calls, kind \in FetchFailures : RatesFailure(c, kind)

IdleCurrency ==
    /\ currencyCache = [c \in CurrencyCodes |-> <<>>]
    /\ now = 0
    /\ calls = {}
    /\ callCount = 0
    /\ done = <<>>

----------------------------------------------------------------------------
(* pages/SlotMachine/SlotMachine.tsx *)

\* useState<number>(20): the starting balance and the first balance.
startingBalance == 20

\* response.data.data of a spin: the symbols, the reward and the balance the
\* server answers. The spins lose, win, or end the balance.
SpinAnswers ==
    {[spinResult |-> <<"A", "B", "C">>, reward |-> 0, updatedBalance |-> 19],
     [spinResult |-> <<"A", "A", "A">>, reward |-> 2, updatedBalance |-> 21],
     [spinResult |-> <<"B", "B", "C">>, reward |-> 0, updatedBalance |-> 0]}

\* response.data.balance of a reset.
ResetBalances == {startingBalance}

InsufficientError == "Insufficient balance! Please reload or reset the game."
SpinError == "Failed to spin the slot machine. Please try again."
ResetError == "Failed to reset the balance. Please try again."

\* The handler or callback that ran, with the request it was about and the
\* data of the answer.
Event(handler, id, data) == [handler |-> handler, id |-> id, data |-> data]

\* useState of the first render, and the effect that calls handleReset when
\* the component is mounted.
InitSlot ==
    /\ slotBalance = startingBalance
    /\ reward = 0
    /\ slotResult = <<>>
    /\ spinHistory = <<>>
    /\ isSpinning = FALSE
    /\ slotError = ""
    /\ spinCount = 0
    /\ spinRequests = {}
    /\ resetRequests = 1
    /\ spinsSent = 0
    /\ resetsSent = 1
    /\ lastEvent = Event("handleReset", 1, <<>>)

\* A variant that refuses the spin below 0 only.
hasInsufficientBalanceBelowZero(b) == b < 0

\* handleSpin: if (balance <= 0)
hasInsufficientBalance(b) == b <= 0

\* handleSpin up to its await: it refuses the spin without balance, else it
\* clears the error, sets isSpinning and posts the spin request. The request
\* keeps the spinCount of the render whose handler was called.
HandleSpin ==
    /\ hasInsufficientBalance(slotBalance) \/ spinsSent < MaxSpins
    /\ IF hasInsufficientBalance(slotBalance)
       THEN /\ slotError' = InsufficientError
            /\ lastEvent' = Event("handleSpin", 0, <<>>)
            /\ UNCHANGED <<isSpinning, spinRequests, spinsSent>>
       ELSE /\ slotError' = ""
            /\ isSpinning' = TRUE
            /\ spinRequests' = spinRequests \cup
                   {[id |-> spinsSent + 1, spinCount |-> spinCount]}
            /\ spinsSent' = spinsSent + 1
            /\ lastEvent' = Event("handleSpin", spinsSent + 1, <<>>)
    /\ UNCHANGED <<slotBalance, reward, slotResult, spinHistory, spinCount,
                   resetRequests, resetsSent>>

\* A variant that leaves the Spin button enabled during a spin.
isSpinDisabledWithoutBalance(spinning, b) == b <= 0

\* isSpinDisabled: isSpinning || balance <= 0
isSpinDisabled(spinning, b) == spinning \/ b <= 0

\* A click on the Spin button, which is disabled when isSpinDisabled.
ClickSpin ==
    /\ ~isSpinDisabled(isSpinning, slotBalance)
    /\ HandleSpin

\* A variant that puts the new entry first.
PrependSpin(prev, entry) == <<entry>> \o prev

\* setSpinHistory((prev) => [...prev, entry])
AppendSpin(prev, entry) == Append(prev, entry)

\* The spin request r is answered with d: handleSpin sets the result, the
\* reward and the balance, adds 1 to the spin count, appends the entry, whose
\* number is spinCount + 1 with the spinCount the request keeps, and its
\* finally block clears isSpinning.
SpinAnswered(r, d) ==
    /\ r \in spinRequests
    /\ spinRequests' = spinRequests \ {r}
    /\ slotResult' = d.spinResult
    /\ reward' = d.reward
    /\ slotBalance' = d.updatedBalance
    /\ spinCount' = spinCount + 1
    /\ spinHistory' = AppendSpin(spinHistory,
                                 [spinNumber |-> r.spinCount + 1,
                                  result |-> d.spinResult,
                                  reward |-> d.reward,
                                  balance |-> d.updatedBalance])
    /\ isSpinning' = FALSE
    /\ lastEvent' = Event("spinAnswered", r.id, <<d>>)
    /\ UNCHANGED <<slotError, resetRequests, spinsSent, resetsSent>>

\* A variant that clears the reward when the spin fails.
SpinFailedClearsReward(r) ==
    /\ r \in spinRequests
    /\ spinRequests' = spinRequests \ {r}
    /\ slotError' = SpinError
    /\ reward' = 0
    /\ isSpinning' = FALSE
    /\ lastEvent' = Event("spinFailed", r.id, <<>>)
    /\ UNCHANGED <<slotBalance, slotResult, spinHistory, spinCount,
                   resetRequests, spinsSent, resetsSent>>

\* The spin request r fails, or its answer has no data: the catch block of
\* handleSpin sets the error and its finally block clears isSpinning.
SpinFailed(r) ==
    /\ r \in spinRequests
    /\ spinRequests' = spinRequests \ {r}
    /\ slotError' = SpinError
    /\ isSpinning' = FALSE
    /\ lastEvent' = Event("spinFailed", r.id, <<>>)
    /\ UNCHANGED <<slotBalance, reward, slotResult, spinHistory, spinCount,
                   resetRequests, spinsSent, resetsSent>>

\* handleReset up to its await, on a click on Reset Balance: it clears the
\* error and posts the reset request.
ClickReset ==
    /\ resetsSent < MaxResets
    /\ slotError' = ""
    /\ resetRequests' = resetRequests + 1
    /\ resetsSent' = resetsSent + 1
    /\ lastEvent' = Event("handleReset", resetsSent + 1, <<>>)
    /\ UNCHANGED <<slotBalance, reward, slotResult, spinHistory, isSpinning,
                   spinCount, spinRequests, spinsSent>>

\* A reset request is answered with the balance b: handleReset sets the
\* state to its first values.
ResetAnswered(b) ==
    /\ resetRequests > 0
    /\ resetRequests' = resetRequests - 1
    /\ slotBalance' = b
    /\ reward' = 0
    /\ slotResult' = <<>>
    /\ spinHistory' = <<>>
    /\ spinCount' = 0
    /\ lastEvent' = Event("resetAnswered", resetsSent - resetRequests + 1, <<>>)
    /\ UNCHANGED <<isSpinning, slotError, spinRequests, spinsSent, resetsSent>>

\* A reset request fails: the catch block of handleReset sets the error.
ResetFailed ==
    /\ resetRequests > 0
    /\ resetRequests' = resetRequests - 1
    /\ slotError' = ResetError
    /\ lastEvent' = Event("resetFailed", resetsSent - resetRequests + 1, <<>>)
    /\ UNCHANGED <<slotBalance, reward, slotResult, spinHistory, isSpinning,
                   spinCount, spinRequests, spinsSent, resetsSent>>

\* handleSpin called as a function, whatever the state of the button.
InvokeSpin == HandleSpin
AnswerSpin == \E r \in spinRequests, d \in SpinAnswers : SpinAnswered(r, d)
FailSpin == \E r \in spinRequests : SpinFailed(r)
AnswerReset == \E b \in ResetBalances : ResetAnswered(b)

IdleSlot ==
    /\ slotBalance = startingBalance
    /\ reward = 0
    /\ slotResult = <<>>
    /\ spinHistory = <<>>
    /\ isSpinning = FALSE
    /\ slotError = ""
    /\ spinCount = 0
    /\ spinRequests = {}
    /\ resetRequests = 0
    /\ spinsSent = 0
    /\ resetsSent = 0
    /\ lastEvent = Event("", 0, <<>>)

----------------------------------------------------------------------------
(* Specifications. Each of them runs one part of the program and leaves    *)
(* the variables of the others at rest.                                    *)

IdleSanitize == input = Undefined /\ defaults = Undefined /\ result = Pending
IdleValid == newPage = 1 /\ total = 0 /\ pageLimit = limit /\ valid = "pending"
IdlePagination ==
    /\ currentPage = 1
    /\ totalItems = 0
    /\ itemsPerPage = limit
    /\ buttons = <<>>
    /\ clicked = <<>>
    /\ invoked = <<>>
    /\ raised = FALSE

InitS ==
    InitSanitize /\ IdleValid /\ IdlePagination /\ IdleGames /\ IdleCurrency
        /\ IdleSlot
NextS ==
    Sanitize /\ UNCHANGED validVars /\ UNCHANGED paginationVars
        /\ UNCHANGED gamesVars /\ UNCHANGED currencyVars /\ UNCHANGED slotVars
SpecSanitize == InitS /\ [][NextS]_vars

InitV ==
    InitValid /\ IdleSanitize /\ IdlePagination /\ IdleGames /\ IdleCurrency
        /\ IdleSlot
NextV ==
    CheckPage /\ UNCHANGED sanitizeVars /\ UNCHANGED paginationVars
        /\ UNCHANGED gamesVars /\ UNCHANGED currencyVars /\ UNCHANGED slotVars
SpecValid == InitV /\ [][NextV]_vars

InitP ==
    InitPagination /\ IdleSanitize /\ IdleValid /\ IdleGames /\ IdleCurrency
        /\ IdleSlot
NextP ==
    ClickButton /\ UNCHANGED sanitizeVars /\ UNCHANGED validVars
        /\ UNCHANGED gamesVars /\ UNCHANGED currencyVars /\ UNCHANGED slotVars
SpecPagination == InitP /\ [][NextP]_vars

InitG ==
    InitGames /\ IdleSanitize /\ IdleValid /\ IdlePagination /\ IdleCurrency
        /\ IdleSlot
NextG ==
    /\ \/ EditSearch
       \/ ClickPage
       \/ Tick
       \/ FireTimer
       \/ AnswerGames
       \/ FailGames
    /\ UNCHANGED sanitizeVars /\ UNCHANGED validVars /\ UNCHANGED paginationVars
    /\ UNCHANGED currencyVars /\ UNCHANGED slotVars
SpecGames == InitG /\ [][NextG]_vars

InitC ==
    InitCurrency /\ IdleSanitize /\ IdleValid /\ IdlePagination /\ IdleGames
        /\ IdleSlot
NextC ==
    /\ \/ Convert
       \/ AnswerRates
       \/ FailRates
       \/ ClockTick
    /\ UNCHANGED sanitizeVars /\ UNCHANGED validVars /\ UNCHANGED paginationVars
    /\ UNCHANGED gamesVars /\ UNCHANGED slotVars
SpecCurrency == InitC /\ [][NextC]_vars

IdleOthers ==
    IdleSanitize /\ IdleValid /\ IdlePagination /\ IdleGames /\ IdleCurrency
OthersUnchanged ==
    /\ UNCHANGED sanitizeVars /\ UNCHANGED validVars /\ UNCHANGED paginationVars
    /\ UNCHANGED gamesVars /\ UNCHANGED currencyVars

\* The slot machine as its user drives it.
InitM == InitSlot /\ IdleOthers
NextM ==
    /\ \/ ClickSpin
       \/ ClickReset
       \/ AnswerSpin
       \/ FailSpin
       \/ AnswerReset
       \/ ResetFailed
    /\ OthersUnchanged
SpecSlot == InitM /\ [][NextM]_vars

\* The handlers of the slot machine called as functions: handleSpin is
\* called in every state, also where the Spin button is disabled.
InitH == InitSlot /\ IdleOthers
NextH ==
    /\ \/ InvokeSpin
       \/ ClickReset
       \/ AnswerSpin
       \/ FailSpin
       \/ AnswerReset
       \/ ResetFailed
    /\ OthersUnchanged
SpecSlotHandlers == InitH /\ [][NextH]_vars

Init == InitS \/ InitV \/ InitP \/ InitG \/ InitC \/ InitM \/ InitH
Next == NextS \/ NextV \/ NextP \/ NextG \/ NextC \/ NextM \/ NextH
Spec == Init /\ [][Next]_vars

----------------------------------------------------------------------------
(* Claims about sanitizeInput, under SpecSanitize. *)

\* The default templates the claims range over (the data model's): a defined, non-null primitive, a
\* sequence, or a mapping of keys to templates.
RECURSIVE IsTemplate(_)
IsTemplate(d) ==
    \/ IsPrimitive(d)
    \/ IsArray(d)
    \/ /\ IsObject(d)
       /\ \A i \in 1..Len(d.entries) : IsTemplate(d.entries[i].v)

\* r has the key-set of the mapping template d, at every nested mapping of d.
RECURSIVE Conforms(_, _)
Conforms(r, d) ==
    /\ IsObject(r)
    /\ KeySet(r) = KeySet(d)
    /\ \A k \in KeySet(d) :
          IsObject(GetProp(d, k)) => Conforms(GetProp(r, k), GetProp(d, k))

IsEmptyArray(v) == IsArray(v) /\ Len(v.elems) = 0
IsNonEmptyArray(v) == IsArray(v) /\ Len(v.elems) >= 1

\* C1: for a mapping template `defaults` and any input, the call returns a
\* mapping with exactly the key-set of `defaults`, recursively at every nested
\* mapping of the template.
ClaimC1 ==
    (Called /\ IsObject(defaults) /\ IsTemplate(defaults))
        => Conforms(result, defaults)

\* C2: for a sequence `defaults`, the call returns input when input is a
\* sequence of at least one element and returns defaults for every other
\* input.
ClaimC2 ==
    (Called /\ IsArray(defaults))
        => result = IF IsNonEmptyArray(input) THEN input ELSE defaults

CharKeys(d) == [i \in 1..Len(d.cs) |-> IndexKey(i)]

ThmC4 ==
    (Called /\ IsObject(input) /\ IsObject(defaults) /\ IsTemplate(defaults)) =>
        /\ IsObject(result)
        /\ KeysOf(result) = KeysOf(defaults)
        /\ \A i \in 1..Len(defaults.entries) :
              result.entries[i].v =
                  sanitizeInput(GetProp(input, defaults.entries[i].k),
                                defaults.entries[i].v)
        /\ \A k \in KeySet(input) \ KeySet(defaults) : k \notin KeySet(result)

\* input has the keys a and b, defaults only b, with a nested mapping under
\* it: a is dropped and b is sanitized against the nested template.
WitC4 ==
    /\ Called
    /\ IsObject(input) /\ KeysOf(input) = <<"a", "b">>
    /\ GetProp(input, "b") = Obj(<<Entry("a", Undefined)>>)
    /\ defaults = Obj(<<Entry("b", Obj(<<Entry("a", Num(0))>>))>>)
    /\ result = defaults

\* C5: the call never fails: for every input and every template, a null or
\* undefined template or sub-template included, it returns a value and
\* raises no error.
ClaimC5 == Called => ~Threw

\* C6: sanitizeInput(undefined, D) is D for every template D, and when input
\* is a mapping whose value at a key k of the mapping template is undefined,
\* the result at k is the whole default subtree defaults[k].
ThmC6 ==
    /\ (Called /\ input = Undefined) => result = defaults
    /\ (Called /\ IsObject(input) /\ IsObject(defaults) /\ IsTemplate(defaults)) =>
          \A k \in KeySet(defaults) :
              GetProp(input, k) = Undefined
                  => GetProp(result, k) = GetProp(defaults, k)

\* input lacks key a, where the template holds a nested mapping, and has
\* key b.
WitC6 ==
    /\ Called
    /\ IsObject(input) /\ KeySet(input) = {"b"}
    /\ IsObject(defaults) /\ IsTemplate(defaults) /\ KeySet(defaults) = {"a", "b"}
    /\ GetProp(defaults, "a") = Obj(<<Entry("a", Num(0))>>)
    /\ GetProp(result, "a") = Obj(<<Entry("a", Num(0))>>)

\* The mapping o with the value of its i-th property replaced by v.
WithValue(o, i, v) == Obj([o.entries EXCEPT ![i] = Entry(o.entries[i].k, v)])

\* C7: an empty sequence is treated exactly like a missing input:
\* sanitizeInput([], X) is X for a non-empty default sequence X, and
\* sanitizeInput([], D) is sanitizeInput(undefined, D) for every template D,
\* at the top level and at any mapping key.
ThmC7 ==
    /\ (Called /\ IsEmptyArray(input) /\ IsNonEmptyArray(defaults))
          => result = defaults
    /\ (Called /\ IsEmptyArray(input))
          => result = sanitizeInput(Undefined, defaults)
    /\ (Called /\ IsObject(input)) =>
          \A i \in 1..Len(input.entries) :
              IsEmptyArray(input.entries[i].v)
                  => result = sanitizeInput(WithValue(input, i, Undefined), defaults)

\* input holds [] at key a, where the template holds [0].
WitC7 ==
    /\ Called
    /\ IsObject(input) /\ GetProp(input, "a") = Arr(<<>>)
    /\ IsObject(defaults) /\ GetProp(defaults, "a") = Arr(<<Num(0)>>)
    /\ IsObject(result) /\ GetProp(result, "a") = Arr(<<Num(0)>>)

\* The falsy leaves that are defined and non-null: 0, false and "".
FalsyLeaves == {Num(0), Bool(FALSE), Str(<<>>)}

\* C8: falsy but defined leaf inputs are kept: for a primitive default d,
\* sanitizeInput(0, d) is 0, sanitizeInput(false, d) is false and
\* sanitizeInput("", d) is "", at the top level and at any mapping key; of
\* the leaf inputs only undefined and null are replaced by the default.
ThmC8 ==
    /\ (Called /\ IsPrimitive(defaults) /\ input \in FalsyLeaves) => result = input
    /\ (Called /\ IsPrimitive(defaults) /\ IsPrimitive(input)) => result = input
    /\ (Called /\ IsPrimitive(defaults) /\ IsNullish(input)) => result = defaults
    /\ (Called /\ IsObject(input) /\ IsObject(defaults) /\ IsTemplate(defaults)) =>
          \A k \in KeySet(defaults) :
              /\ (IsPrimitive(GetProp(defaults, k)) /\ GetProp(input, k) \in FalsyLeaves)
                    => GetProp(result, k) = GetProp(input, k)
              /\ (IsPrimitive(GetProp(defaults, k)) /\ IsNullish(GetProp(input, k)))
                    => GetProp(result, k) = GetProp(defaults, k)

\* input holds 0 at key a and false at key b, where the template holds other
\* primitives.
WitC8 ==
    /\ Called
    /\ IsObject(input) /\ IsObject(defaults)
    /\ GetProp(input, "a") = Num(0) /\ GetProp(defaults, "a") = Num(MaxNum)
    /\ GetProp(input, "b") = Bool(FALSE) /\ GetProp(defaults, "b") = Str(<<"x">>)
    /\ GetProp(result, "a") = Num(0) /\ GetProp(result, "b") = Bool(FALSE)

----------------------------------------------------------------------------
(* Claims about the Pagination component. *)

\* The last click was on a button whose onClick hands handlePageChange the
\* component's totalItems and the caller's callback (Previous and Next do).
DispatchedWithProps ==
    /\ clicked # <<>>
    /\ buttons[clicked[1]].total = Num(totalItems)
    /\ buttons[clicked[1]].onPageChange = Callback

\* C9 (under SpecPagination): the page-change dispatch, called with a target
\* page, the component's totalItems and the caller's onPageChange, invokes
\* onPageChange(targetPage) exactly once if isValidPage(targetPage,
\* totalItems, itemsPerPage) holds for the itemsPerPage the caller passed to
\* the component, and otherwise does not invoke it; it raises no error.
ClaimC9 ==
    DispatchedWithProps =>
        /\ ~raised
        /\ invoked = IF isValidPage(clicked[2], totalItems, itemsPerPage)
                     THEN <<clicked[2]>>
                     ELSE <<>>

\* ceil(t / l): the least c with c * l >= t.
CeilOf(t, l) == CHOOSE c \in 0..t : c * l >= t /\ \A b \in 0..(c - 1) : b * l < t

\* C10 (under SpecValid): isValidPage(candidatePage, totalItems,
\* itemsPerPage) is true if and only if candidatePage >= 1 and candidatePage
\* <= ceil(totalItems / itemsPerPage); no page is valid when totalItems is 0.
ThmC10 ==
    valid # "pending" =>
        /\ valid = "true" <=> (newPage >= 1 /\ newPage <= CeilOf(total, pageLimit))
        /\ total = 0 => valid = "false"

\* The last page of a total that does not fill it.
WitC10 ==
    /\ valid = "true"
    /\ newPage > 1
    /\ total % pageLimit # 0
    /\ newPage * pageLimit > total

----------------------------------------------------------------------------
(* Claims about the page descriptors (under SpecPagination). *)

\* The numbered buttons are those between Previous and Next.
Numbered == 2..(Len(buttons) - 1)

\* C11 (under SpecPagination): the numbered descriptor n is active exactly
\* when n equals currentPage, and Previous and Next are never active.
ClaimC11 ==
    /\ \A i \in Numbered :
           buttons[i].active <=> (buttons[i].targetPage = currentPage)
    /\ ~buttons[1].active
    /\ ~buttons[Len(buttons)].active

\* C12 (under SpecPagination): the descriptors are Previous, then one
\* numbered descriptor for each page of 1..ceil(totalItems / itemsPerPage) in
\* ascending order, then Next; a numbered descriptor is never disabled.
ThmC12 ==
    /\ Len(buttons) = CeilOf(totalItems, itemsPerPage) + 2
    /\ buttons[1].label = "Previous"
    /\ buttons[Len(buttons)].label = "Next"
    /\ \A n \in 1..CeilOf(totalItems, itemsPerPage) :
           /\ buttons[n + 1].label = ToString(n)
           /\ buttons[n + 1].targetPage = n
           /\ ~buttons[n + 1].disabled

\* Several pages, the last of them not full.
WitC12 ==
    /\ CeilOf(totalItems, itemsPerPage) >= 3
    /\ CeilOf(totalItems, itemsPerPage) * itemsPerPage > totalItems
    /\ Len(buttons) = CeilOf(totalItems, itemsPerPage) + 2
    /\ buttons[4].label = "3"

\* C13 (under SpecPagination): Previous targets currentPage - 1 and is
\* disabled exactly when currentPage is 1; Next targets currentPage + 1 and
\* is disabled exactly when currentPage equals the number of pages.
ThmC13 ==
    /\ buttons[1].label = "Previous"
    /\ buttons[1].targetPage = currentPage - 1
    /\ buttons[1].disabled <=> (currentPage = 1)
    /\ buttons[Len(buttons)].label = "Next"
    /\ buttons[Len(buttons)].targetPage = currentPage + 1
    /\ buttons[Len(buttons)].disabled
           <=> (currentPage = CeilOf(totalItems, itemsPerPage))

\* The last of several pages: Previous is enabled and Next disabled.
WitC13 ==
    /\ currentPage = 3
    /\ CeilOf(totalItems, itemsPerPage) = 3
    /\ ~buttons[1].disabled
    /\ buttons[1].targetPage = 2
    /\ buttons[Len(buttons)].disabled

\* C14 (under SpecPagination), as stated: with totalItems 0 and currentPage
\* 1 the descriptors are exactly Previous and Next, both disabled.
ClaimC14 ==
    (totalItems = 0 /\ currentPage = 1)
        => /\ Len(buttons) = 2
           /\ buttons[1].label = "Previous" /\ buttons[1].disabled
           /\ buttons[2].label = "Next" /\ buttons[2].disabled

\* C14 (under SpecPagination), amended: with totalItems 0 and currentPage 1
\* the descriptors are exactly Previous and Next; Previous is disabled, Next
\* is not (1 is not the number of pages, which is 0), and a click on Next
\* does not invoke onPageChange.
ThmC14 ==
    (totalItems = 0 /\ currentPage = 1)
        => /\ Len(buttons) = 2
           /\ buttons[1].label = "Previous" /\ buttons[1].disabled
           /\ buttons[2].label = "Next" /\ ~buttons[2].disabled
           /\ clicked # <<>> => (clicked = <<2, 2>> /\ invoked = <<>> /\ ~raised)

\* Next was clicked with no items, and onPageChange was not invoked.
WitC14 ==
    /\ totalItems = 0
    /\ currentPage = 1
    /\ Len(buttons) = 2
    /\ clicked = <<2, 2>>
    /\ invoked = <<>>

\* C16 (under SpecPagination): activating the numbered descriptor n, with n
\* in 1..totalPages, invokes onPageChange(n) exactly once.
ClaimC16 ==
    (/\ clicked # <<>>
     /\ clicked[1] \in Numbered
     /\ clicked[2] \in 1..CeilOf(totalItems, itemsPerPage))
        => (invoked = <<clicked[2]>> /\ ~raised)

----------------------------------------------------------------------------
(* Claims about the games list (under SpecGames). *)

\* C15 (under SpecGames): in every state the games list reaches with the
\* pagination control, through search edits, pagination clicks, debounce
\* expiries and answers or failures of requests, the current page is >= 1.
ThmC15 == gamesPage >= 1

\* The page was moved forward by the pagination control after an answer.
WitC15 ==
    /\ gamesPage > 1
    /\ applied # <<>>
    /\ gamesTotal > gamesItemsPerPage

\* C17 (under SpecGames): the games, total and notFound shown come from the
\* most recently issued request; the answer to an earlier request that
\* arrives after a later request was issued never overwrites them.
ClaimC17 == applied # <<>> => applied[1] = applied[2]

\* C18 (under SpecGames): loading is true from the start of a games request
\* until its answer or failure has been applied, and false only when no
\* request is outstanding.
ClaimC18 == loading <=> (inflight # {})

\* cs without the spaces at its two ends, stated without Trim.
Spaces(n) == [i \in 1..n |-> " "]
IsTrimOf(q, cs) ==
    /\ q = <<>> \/ (q[1] # " " /\ q[Len(q)] # " ")
    /\ \E i, j \in 0..Len(cs) : cs = Spaces(i) \o q \o Spaces(j)

\* C19 (under SpecGames): a request is issued only when 500 ms have passed
\* since the last change to the search text or the page; every change
\* cancels the pending timeout and starts a new one, so that a burst of
\* changes yields one request; and the request carries the trimmed search
\* text and the page as they are after the last change.
ThmC19 ==
    [][/\ (search' # search \/ gamesPage' # gamesPage)
            => /\ timers' = <<[search |-> search', page |-> gamesPage',
                               elapsed |-> 0]>>
               /\ issued' = issued
               /\ inflight' = inflight
       /\ issued' # issued
            => /\ issued' = issued + 1
               /\ Len(timers) = 1
               /\ timers[1].elapsed >= 500
               /\ timers[1].search = search
               /\ timers[1].page = gamesPage
               /\ timers' = <<>>
               /\ \E r \in inflight' :
                      /\ r \notin inflight
                      /\ inflight' = inflight \cup {r}
                      /\ r.id = issued'
                      /\ IsTrimOf(r.query, search)
                      /\ r.page = gamesPage
       /\ inflight' \subseteq inflight \/ issued' # issued]_vars

\* After several edits of the search text one request went out, with the
\* text trimmed.
WitC19 ==
    /\ issued = 1
    /\ search = <<"a", " ">>
    /\ timers = <<>>
    /\ \E r \in inflight : r.id = 1 /\ r.query = <<"a">> /\ r.page = 1

----------------------------------------------------------------------------
(* Claims about the currency service (under SpecCurrency). *)

\* A call found a rate cached for less than one minute.
HadFreshRate(cachedRate, calledAt) ==
    cachedRate # <<>> /\ calledAt - cachedRate[1].timestamp < 60000

\* C20 (under SpecCurrency): convertCurrency fetches the rates exactly when
\* the cache holds no entry of its currency younger than CACHE_TTL (one
\* minute); a cached rate aged CACHE_TTL or more is never used, and a valid
\* cached rate is used without a fetch.
ThmC20 ==
    /\ \A c \in calls : ~HadFreshRate(c.cachedRate, c.calledAt)
    /\ done # <<>> =>
          LET d == done[1]
          IN /\ d.fetched <=> ~HadFreshRate(d.cachedRate, d.calledAt)
             /\ ~d.fetched =>
                   /\ d.status = "returned"
                   /\ d.value.whole * 100 + d.value.cents
                          = d.balance * d.cachedRate[1].rate
             /\ (d.fetched /\ d.status = "returned") =>
                   /\ currencyCache[d.currency] # <<>>
                   /\ currencyCache[d.currency][1].timestamp >= d.calledAt
                   /\ d.value.whole * 100 + d.value.cents
                          = d.balance * currencyCache[d.currency][1].rate

\* A call at the very end of an entry's minute fetched the rates, and
\* returned the conversion at the new rate.
WitC20 ==
    /\ done # <<>>
    /\ done[1].fetched
    /\ done[1].status = "returned"
    /\ done[1].cachedRate # <<>>
    /\ done[1].calledAt - done[1].cachedRate[1].timestamp = 60000
    /\ done[1].value.whole * 100 + done[1].value.cents
           # done[1].balance * done[1].cachedRate[1].rate

\* C21 (under SpecCurrency): when convertCurrency fails (the fetch of the
\* rates fails or times out, the answer has no rates, or it has no rate for
\* the currency) it throws an error to its caller and leaves the cache as it
\* was; an entry is written only by a call that obtained a rate for its
\* currency, and for that currency only.
ThmC21 ==
    [][/\ (done' # done /\ done'[1].status = "threw")
            => /\ currencyCache' = currencyCache
               /\ done'[1].fetched
               /\ done'[1].value.message # ""
       /\ currencyCache' # currencyCache
            => /\ done' # done
               /\ done'[1].status = "returned"
               /\ done'[1].fetched
               /\ \A c \in CurrencyCodes :
                      IF c = done'[1].currency
                      THEN /\ currencyCache'[c] # <<>>
                           /\ currencyCache'[c][1].rate > 0
                           /\ currencyCache'[c][1].timestamp = now
                           /\ done'[1].value.whole * 100 + done'[1].value.cents
                                  = done'[1].balance * currencyCache'[c][1].rate
                      ELSE currencyCache'[c] = currencyCache[c]]_vars

\* A call found an expired rate, its fetch failed, and the expired entry is
\* still in the cache.
WitC21 ==
    /\ done # <<>>
    /\ done[1].status = "threw"
    /\ done[1].cachedRate # <<>>
    /\ currencyCache[done[1].currency] = done[1].cachedRate

----------------------------------------------------------------------------
(* Claims about the slot machine (under SpecSlot and SpecSlotHandlers). *)

\* The state a spin shows: balance, reward, result, history and count.
SpinState == <<slotBalance, reward, slotResult, spinHistory, spinCount>>

\* The handler that ran in this step.
Ran(handler) == lastEvent' # lastEvent /\ lastEvent'.handler = handler

\* C22 (under SpecSlot): on a successful answer (spinResult, reward,
\* updatedBalance) of a spin, result, reward and balance take those values,
\* spinCount grows by exactly 1, and exactly one entry with that result,
\* reward and balance is appended to the end of spinHistory, whose earlier
\* entries stay as they were.
ThmC22 ==
    [][Ran("spinAnswered") =>
          LET d == lastEvent'.data[1]
              n == Len(spinHistory)
          IN /\ slotResult' = d.spinResult
             /\ reward' = d.reward
             /\ slotBalance' = d.updatedBalance
             /\ spinCount' = spinCount + 1
             /\ Len(spinHistory') = n + 1
             /\ \A i \in 1..n : spinHistory'[i] = spinHistory[i]
             /\ spinHistory'[n + 1].result = d.spinResult
             /\ spinHistory'[n + 1].reward = d.reward
             /\ spinHistory'[n + 1].balance = d.updatedBalance]_vars

\* A second spin was answered, with a win after a loss.
WitC22 ==
    /\ lastEvent.handler = "spinAnswered"
    /\ spinCount = 2
    /\ Len(spinHistory) = 2
    /\ spinHistory[1].reward = 0
    /\ spinHistory[2].reward = 2
    /\ reward = 2
    /\ slotBalance = 21

\* C23 (under SpecSlot): in every state, whatever the interleaving of spins,
\* resets and their answers, the i-th entry of spinHistory has spinNumber i,
\* and the last spinNumber is spinCount.
ClaimC23 ==
    /\ \A i \in 1..Len(spinHistory) : spinHistory[i].spinNumber = i
    /\ spinHistory # <<>> => spinHistory[Len(spinHistory)].spinNumber = spinCount

\* C24 (under SpecSlot): at most one spin request is outstanding; isSpinning
\* is true from the sending of a spin request until its answer or failure
\* is handled; no spin is sent while isSpinning is true (the Spin button is
\* disabled); after a spin is answered or fails isSpinning is false.
ThmC24 ==
    /\ [](/\ Cardinality(spinRequests) <= 1
          /\ isSpinning <=> (spinRequests # {}))
    /\ [][/\ spinsSent' # spinsSent => (~isSpinning /\ isSpinning')
          /\ (Ran("spinAnswered") \/ Ran("spinFailed")) => ~isSpinning']_vars

\* A spin is outstanding after an earlier one was answered.
WitC24 ==
    /\ isSpinning
    /\ Cardinality(spinRequests) = 1
    /\ spinsSent = 2
    /\ spinCount = 1

\* C25 (under SpecSlotHandlers): handleSpin called with balance <= 0 sets the
\* insufficient-balance error and sends no spin request; balance, reward,
\* result, spinHistory, spinCount and isSpinning stay as they are.
ThmC25 ==
    [][(Ran("handleSpin") /\ slotBalance <= 0) =>
          /\ slotError' = "Insufficient balance! Please reload or reset the game."
          /\ spinRequests' = spinRequests
          /\ spinsSent' = spinsSent
          /\ SpinState' = SpinState
          /\ isSpinning' = isSpinning]_vars

\* handleSpin was called after a spin brought the balance to 0.
WitC25 ==
    /\ lastEvent = Event("handleSpin", 0, <<>>)
    /\ slotBalance = 0
    /\ spinHistory # <<>>
    /\ slotError = "Insufficient balance! Please reload or reset the game."

====
